---- MODULE Spec2Model ----
(***************************************************************************)
(* Model of the Sentry MCP server (src/src/index.ts): the call-tool        *)
(* handler, the six tools, the axios instance with its retry interceptor   *)
(* and the upstream API seen through the responses it gives.               *)
(*                                                                         *)
(* A tool call is suspended only at its outbound HTTP requests, so one     *)
(* action models the handler's code between two suspension points.         *)
(***************************************************************************)
EXTENDS Integers, Sequences, FiniteSets, TLC

\* ------------------------------------------------------------------ bounds
\* Longest release list the upstream returns.
MaxReleases == 2
\* Largest count argument a caller passes to list_recent_releases.
MaxCount == 3
\* Most unhandled rejections in one run.
MaxRejections == 2

\* --------------------------------------------------------- JavaScript values
Undefined == [t |-> "undefined"]
Null == [t |-> "null"]
NaN == [t |-> "NaN"]
Str(s) == [t |-> "string", v |-> s]
Num(n) == [t |-> "number", v |-> n]

\* ToBoolean: "", 0, NaN, null and undefined are falsy.
Truthy(x) ==
    CASE x.t = "string" -> x.v # ""
      [] x.t = "number" -> x.v # 0
      [] OTHER -> FALSE

\* a || b
OrElse(a, b) == IF Truthy(a) THEN a ELSE b

\* String(x) for the values a slug argument takes.
String(x) ==
    CASE x.t = "string" -> x.v
      [] x.t = "null" -> "null"
      [] x.t = "undefined" -> "undefined"
      [] x.t = "NaN" -> "NaN"

\* The numeric strings a caller passes as count.
NumericStrings == [s \in {"", "2"} |-> IF s = "" THEN 0 ELSE 2]

\* Number(x)
Number(x) ==
    CASE x.t = "number" -> x
      [] x.t = "string" ->
           IF x.v \in DOMAIN NumericStrings THEN Num(NumericStrings[x.v]) ELSE NaN
      [] x.t = "null" -> Num(0)
      [] OTHER -> NaN

\* An arguments object: a finite map from keys to values.
Object(fields) == [t |-> "object", fields |-> fields]
\* 'k' in args
HasKey(args, k) == k \in DOMAIN args.fields
\* args.k
Get(args, k) == IF HasKey(args, k) THEN args.fields[k] ELSE Undefined

\* ------------------------------------------------------------ configuration
\* The environments the process is started in.
Environments ==
    [SENTRY_AUTH_TOKEN : {Undefined, Str("token")},
     SENTRY_BASE_URL : {Undefined, Str("https://sentry.example/api/0/")},
     SENTRY_ORG_SLUG : {Undefined, Str(""), Str("acme")}]

\* Lines 30-41: each of the three values must be truthy, else process.exit(1).
ConfigCompleteWithoutOrg(e) ==
    /\ Truthy(e.SENTRY_AUTH_TOKEN)
    /\ Truthy(e.SENTRY_BASE_URL)
ConfigComplete(e) ==
    /\ Truthy(e.SENTRY_AUTH_TOKEN)
    /\ Truthy(e.SENTRY_BASE_URL)
    /\ Truthy(e.SENTRY_ORG_SLUG)

\* axios.create({retry: 3, retryDelay: n => n * 1000, timeout: 10000})
Retry == 3
RetryDelayFromZero(retryCount) == (retryCount - 1) * 1000
RetryDelay(retryCount) == retryCount * 1000
Timeout == 10000

\* ------------------------------------------------------------------- state
Calls == {1, 2}

VARIABLES
    env,        \* process.env as read at startup
    process,    \* "serving" (connected to its transport) | "exited"
    exitCode,   \* the status the process exited with, if it has
    lastError,  \* global.lastError
    rejections, \* the unhandled promise rejections that have occurred, in order
    pc,         \* per call: "idle" | "http" | "backoff" | "returned" | "thrown"
                \*           | "listed"
    request,    \* per call: the call-tool request {name, arguments}
    locals,     \* per call: the running operation's local variables
    stage,      \* per call: which await of the operation is pending
    config,     \* per call: the axios config of the pending request
    timer,      \* per call: the delay of the pending setTimeout
    outbound,   \* per call: the logical outbound requests made so far
    raised,     \* per call: the failure raised inside the handler, if any
    result,     \* per call: the envelope returned, or the error thrown
    failedBefore \* whether an earlier call ended in a failure

vars == <<env, process, exitCode, lastError, rejections, pc, request, locals, stage, config, timer, outbound,
          raised, result, failedBefore>>

SENTRY_BASE_URL == env.SENTRY_BASE_URL.v
SENTRY_ORG_SLUG == env.SENTRY_ORG_SLUG.v
SENTRY_AUTH_TOKEN == env.SENTRY_AUTH_TOKEN.v

\* ---------------------------------------------------------------- upstream
\* new Date(s).getTime() for the dateCreated strings the upstream sends, in
\* minutes since 2023-10-25T00:00Z.  The third is earlier than the second
\* although it is the greater string.
GetTime(s) ==
    CASE s = "2023-10-25T09:00:00Z" -> 540
      [] s = "2023-10-26T23:00:00Z" -> 2820
      [] s = "2023-10-27T00:30:00+02:00" -> 2790
      [] s = "2023-10-28T01:00:00Z" -> 4380
      [] s = "2023-10-28T02:00:00Z" -> 4440
      [] s = "2023-10-28T03:00:00Z" -> 4500
      [] s = "2023-10-28T04:00:00Z" -> 4560
      [] s = "2023-10-28T05:00:00Z" -> 4620
      [] s = "2023-10-28T06:00:00Z" -> 4680

\* The releases the upstream knows (SentryReleaseResponse: version,
\* dateCreated, newGroups and further keys).
Releases ==
    { [version |-> "a", dateCreated |-> "2023-10-25T09:00:00Z",
       newGroups |-> 0, shortVersion |-> "a"],
      [version |-> "b@2", dateCreated |-> "2023-10-26T23:00:00Z",
       newGroups |-> 2, shortVersion |-> "b"],
      [version |-> "c-mobile", dateCreated |-> "2023-10-27T00:30:00+02:00",
       newGroups |-> 5, shortVersion |-> "c"],
      [version |-> "", dateCreated |-> "2023-10-26T23:00:00Z",
       newGroups |-> 1, shortVersion |-> ""] }

\* A project with more releases than list_recent_releases returns by default,
\* in the order the upstream lists them.
LongReleaseList ==
    << [version |-> "1.3", dateCreated |-> "2023-10-28T03:00:00Z",
        newGroups |-> 0, shortVersion |-> "1.3"],
       [version |-> "1.1", dateCreated |-> "2023-10-28T01:00:00Z",
        newGroups |-> 1, shortVersion |-> "1.1"],
       [version |-> "1.6", dateCreated |-> "2023-10-28T06:00:00Z",
        newGroups |-> 0, shortVersion |-> "1.6"],
       [version |-> "1.2", dateCreated |-> "2023-10-28T02:00:00Z",
        newGroups |-> 3, shortVersion |-> "1.2"],
       [version |-> "1.5-mobile", dateCreated |-> "2023-10-28T05:00:00Z",
        newGroups |-> 0, shortVersion |-> "1.5"],
       [version |-> "1.4", dateCreated |-> "2023-10-28T04:00:00Z",
        newGroups |-> 2, shortVersion |-> "1.4"] >>

\* The release lists the upstream returns, in any order.
ReleaseLists == UNION {[1..n -> Releases] : n \in 0..MaxReleases} \cup {LongReleaseList}

HealthPayloads ==
    { [version |-> "b@2", new_groups |-> 2, crash_free_rate |-> 99,
       sessions |-> 15000, stats |-> "24h", dateCreated |-> "2023-10-26T23:00:00Z"] }

IssuePayloads ==
    { [id |-> "1001", title |-> "TypeError", permalink |-> "https://sentry.example/issues/1001/",
       culprit |-> "render"] }

ProjectPayloads == { [id |-> "89", slug |-> "web"] }

IssueLists == UNION {[1..n -> IssuePayloads] : n \in 0..1}

\* What a 2xx response to the request pending at a stage carries.
Payloads(s) ==
    CASE s \in {"releases", "latest"} -> ReleaseLists
      [] s = "health" -> HealthPayloads
      [] s = "issue" -> IssuePayloads
      [] s = "project" -> ProjectPayloads
      [] s = "issues" -> IssueLists
      [] OTHER -> {}

\* The ways one attempt fails, with the message axios gives the error.
Failures ==
    { [kind |-> "network", message |-> "Network Error"],
      [kind |-> "status", message |-> "Request failed with status code 500"] }

\* encodeURIComponent on the version strings above.
EncodeURIComponent(s) == IF s = "b@2" THEN "b%402" ELSE s

\* ------------------------------------------------------------ array helpers
Min(a, b) == IF a < b THEN a ELSE b
Max(a, b) == IF a > b THEN a ELSE b

\* array.slice(0, end): a negative end counts from the end of the array and
\* NaN is 0.
ArraySliceDropsLast(s, end) ==
    LET e == CASE end.t = "number" ->
                    IF end.v < 0 THEN Max(Len(s) + end.v, 0) ELSE Min(end.v, Len(s))
               [] OTHER -> 0
    IN SubSeq(s, 1, e - 1)
ArraySlice(s, end) ==
    LET e == CASE end.t = "number" ->
                    IF end.v < 0 THEN Max(Len(s) + end.v, 0) ELSE Min(end.v, Len(s))
               [] OTHER -> 0
    IN SubSeq(s, 1, e)

\* The comparator of getSortedReleases: negative when a sorts before b.
ByDateAscending(a, b) == GetTime(a.dateCreated) - GetTime(b.dateCreated)
ByDateDescending(a, b) == GetTime(b.dateCreated) - GetTime(a.dateCreated)

\* array.sort(compare): a stable sort; r goes before the first element that
\* compare puts after it.
SortInsert(sorted, r) ==
    LET later == {i \in 1..Len(sorted) : ByDateDescending(sorted[i], r) > 0}
        at == IF later = {} THEN Len(sorted) + 1
              ELSE CHOOSE i \in later : \A j \in later : i <= j
    IN SubSeq(sorted, 1, at - 1) \o <<r>> \o SubSeq(sorted, at, Len(sorted))

RECURSIVE ArraySort(_)
ArraySort(s) ==
    IF s = <<>> THEN <<>>
    ELSE SortInsert(ArraySort(SubSeq(s, 1, Len(s) - 1)), s[Len(s)])

\* -------------------------------------------------------------------- tools
\* Object.keys(tools), in the order the registry defines them.
ToolKeys ==
    <<"inspect_sentry", "list_recent_releases", "get_releases",
      "get_release_health", "get_issue", "get_release_issues">>

ToolNames == {ToolKeys[i] : i \in 1..Len(ToolKeys)}

\* serverCapabilities.tools: the described tools, in order.
ServerCapabilitiesWithoutHealth ==
    << [name |-> "inspect_sentry",
        description |-> "Inspect server configuration and capabilities",
        required |-> <<>>],
       [name |-> "list_recent_releases",
        description |-> "List most recent releases with issue counts",
        required |-> <<"project_slug">>],
       [name |-> "get_releases",
        description |-> "Get all releases sorted by date (newest first)",
        required |-> <<"project_slug">>],
       [name |-> "get_issue",
        description |-> "Get a Sentry issue by ID",
        required |-> <<"issue_id", "org_slug", "project_slug">>],
       [name |-> "get_release_issues",
        description |-> "Get issues from a specific release (defaults to latest)",
        required |-> <<"project_slug">>] >>
ServerCapabilities ==
    << [name |-> "inspect_sentry",
        description |-> "Inspect server configuration and capabilities",
        required |-> <<>>],
       [name |-> "list_recent_releases",
        description |-> "List most recent releases with issue counts",
        required |-> <<"project_slug">>],
       [name |-> "get_releases",
        description |-> "Get all releases sorted by date (newest first)",
        required |-> <<"project_slug">>],
       [name |-> "get_release_health",
        description |-> "Get health metrics for a release",
        required |-> <<"project_slug">>],
       [name |-> "get_issue",
        description |-> "Get a Sentry issue by ID",
        required |-> <<"issue_id", "org_slug", "project_slug">>],
       [name |-> "get_release_issues",
        description |-> "Get issues from a specific release (defaults to latest)",
        required |-> <<"project_slug">>] >>

\* The list-tools handler: one entry per described tool.
ListToolsHandler ==
    [tools |-> [i \in 1..Len(ServerCapabilities) |->
                   [name |-> ServerCapabilities[i].name,
                    description |-> ServerCapabilities[i].description,
                    inputSchema |-> [type |-> "object",
                                     required |-> ServerCapabilities[i].required]]]]

\* Keys that tools[name] finds on Object.prototype.
PrototypeKeys == {"toString"}

\* What an operation does up to its next suspension point.
Return(v) == [k |-> "return", value |-> v]
Throw(m) == [k |-> "throw", message |-> m]
Await(s, rq, l) == [k |-> "await", stage |-> s, request |-> rq, locals |-> l]

\* axiosInstance.get(url, {params})
HttpGet(url, params) == [url |-> url, params |-> params]

\* getSortedReleases, up to its request.
SortedReleasesRequest(orgSlug, projectSlug) ==
    HttpGet("projects/" \o orgSlug \o "/" \o projectSlug \o "/releases/", Undefined)

ProjectRelease(release) ==
    [version |-> release.version, dateCreated |-> release.dateCreated,
     newGroups |-> release.newGroups]

\* getSortedReleases, from its response on.
GetSortedReleases(data) ==
    LET sorted == ArraySort(data)
    IN [i \in 1..Len(sorted) |-> ProjectRelease(sorted[i])]

\* getLatestReleaseVersion, up to its request.
LatestReleaseRequest(orgSlug, projectSlug) ==
    HttpGet(SENTRY_BASE_URL \o "projects/" \o orgSlug \o "/" \o projectSlug \o "/releases/",
            Undefined)

\* response.data[0]: the first element of the list as the upstream sent it.
NewestRelease(data) == ArraySort(data)[1]
FirstRelease(data) == data[1]

\* response.data?.[0]?.version
FirstVersion(data) == IF Len(data) = 0 THEN Undefined ELSE Str(FirstRelease(data).version)

\* process.version and process.platform of the running process.
ProcessInfo == [nodeVersion |-> "v20.0.0", platform |-> "linux"]

InspectSentryProbesUpstream ==
    Await("latest", LatestReleaseRequest(SENTRY_ORG_SLUG, "web"), <<>>)
InspectSentry ==
    Return([configuration |->
                [baseUrl |-> SENTRY_BASE_URL,
                 authTokenConfigured |-> Truthy(env.SENTRY_AUTH_TOKEN),
                 defaultOrg |-> SENTRY_ORG_SLUG],
            capabilities |-> SelectSeq(ToolKeys, LAMBDA k : k # "inspect_sentry"),
            environment |-> ProcessInfo])

\* String.prototype.includes
IncludesAtStart(s, sub) ==
    Len(s) >= Len(sub) /\ SubSeq(s, 1, Len(sub)) = sub
Includes(s, sub) ==
    \E i \in 1..Len(s) - Len(sub) + 1 : SubSeq(s, i, i + Len(sub) - 1) = sub

RecentRelease(release) ==
    [version |-> release.version, date |-> release.dateCreated,
     new_issues |-> release.newGroups,
     type |-> IF Includes(release.version, "mobile") THEN "mobile" ELSE "desktop"]

ListRecentReleasesStartNoDefault(params) ==
    LET orgSlug == OrElse(params.org_slug, Str(SENTRY_ORG_SLUG))
    IN Await("releases", SortedReleasesRequest(orgSlug.v, params.project_slug),
             [count |-> params.count])
ListRecentReleasesStart(params) ==
    LET orgSlug == OrElse(params.org_slug, Str(SENTRY_ORG_SLUG))
        count == OrElse(params.count, Num(5))
    IN Await("releases", SortedReleasesRequest(orgSlug.v, params.project_slug),
             [count |-> count])

ListRecentReleasesEnd(l, data) ==
    LET recent == ArraySlice(GetSortedReleases(data), l.count)
    IN Return([i \in 1..Len(recent) |-> RecentRelease(recent[i])])

GetReleasesStart(params) ==
    LET orgSlug == OrElse(params.org_slug, Str(SENTRY_ORG_SLUG))
    IN Await("releases", SortedReleasesRequest(orgSlug.v, params.project_slug), <<>>)

GetReleasesEnd(data) == Return(GetSortedReleases(data))

HealthRequest(orgSlug, projectSlug, releaseVersion) ==
    HttpGet(SENTRY_BASE_URL \o "projects/" \o orgSlug \o "/" \o projectSlug
                \o "/releases/" \o EncodeURIComponent(releaseVersion) \o "/",
            Undefined)

GetReleaseHealthStart(params) ==
    LET orgSlug == OrElse(params.org_slug, Str(SENTRY_ORG_SLUG))
        l == [orgSlug |-> orgSlug.v, project_slug |-> params.project_slug,
              releaseVersion |-> params.release_version]
    IN IF Truthy(params.release_version)
       THEN Await("health",
                  HealthRequest(orgSlug.v, params.project_slug, params.release_version.v), l)
       ELSE Await("latest", LatestReleaseRequest(orgSlug.v, params.project_slug), l)

GetReleaseHealthStep(s, l, data) ==
    CASE s = "latest" ->
           IF ~Truthy(FirstVersion(data)) THEN Throw("No releases found")
           ELSE Await("health",
                      HealthRequest(l.orgSlug, l.project_slug, FirstRelease(data).version),
                      [l EXCEPT !.releaseVersion = FirstVersion(data)])
      [] s = "health" ->
           Return([version |-> l.releaseVersion.v, new_issues |-> data.new_groups,
                   crash_free_rate |-> data.crash_free_rate,
                   sessions |-> data.sessions, stats |-> data.stats])

GetIssueStart(params) ==
    Await("issue", HttpGet("/issues/" \o params.issue_id \o "/", Undefined), <<>>)

IssueSummary(issue) ==
    [id |-> issue.id, title |-> issue.title, permalink |-> issue.permalink]

GetIssueEnd(data) == Return(IssueSummary(data))

ProjectRequest(orgSlug, projectSlug) ==
    HttpGet(SENTRY_BASE_URL \o "projects/" \o orgSlug \o "/" \o projectSlug \o "/", Undefined)

IssuesRequest(orgSlug, projectId, releaseVersion) ==
    HttpGet(SENTRY_BASE_URL \o "organizations/" \o orgSlug \o "/issues/",
            [project |-> projectId, query |-> "release:\"" \o releaseVersion \o "\""])

GetReleaseIssuesStart(params) ==
    LET orgSlug == OrElse(params.org_slug, Str(SENTRY_ORG_SLUG))
        l == [orgSlug |-> orgSlug.v, project_slug |-> params.project_slug,
              releaseVersion |-> params.release_version]
    IN IF ~Truthy(params.release_version)
       THEN Await("latest", LatestReleaseRequest(orgSlug.v, params.project_slug), l)
       ELSE Await("project", ProjectRequest(orgSlug.v, params.project_slug), l)

GetReleaseIssuesStepNoEmptyCheck(s, l, data) ==
    CASE s = "latest" ->
           IF Len(data) = 0
           THEN Throw("Cannot read properties of undefined (reading 'version')")
           ELSE IF ~Truthy(Str(FirstRelease(data).version))
           THEN Throw("Could not determine release version.")
           ELSE Await("project", ProjectRequest(l.orgSlug, l.project_slug),
                      [l EXCEPT !.releaseVersion = Str(FirstRelease(data).version)])
      [] s = "project" ->
           Await("issues", IssuesRequest(l.orgSlug, data.id, l.releaseVersion.v), l)
      [] s = "issues" -> Return([i \in 1..Len(data) |-> IssueSummary(data[i])])
GetReleaseIssuesStep(s, l, data) ==
    CASE s = "latest" ->
           IF Len(data) = 0
           THEN Throw("No releases found for project " \o l.project_slug)
           ELSE IF ~Truthy(Str(FirstRelease(data).version))
           THEN Throw("Could not determine release version.")
           ELSE Await("project", ProjectRequest(l.orgSlug, l.project_slug),
                      [l EXCEPT !.releaseVersion = Str(FirstRelease(data).version)])
      [] s = "project" ->
           Await("issues", IssuesRequest(l.orgSlug, data.id, l.releaseVersion.v), l)
      [] s = "issues" -> Return([i \in 1..Len(data) |-> IssueSummary(data[i])])

\* The operation of a tool resumed with the response to its pending request.
Resume(name, s, l, data) ==
    CASE name = "list_recent_releases" -> ListRecentReleasesEnd(l, data)
      [] name = "get_releases" -> GetReleasesEnd(data)
      [] name = "get_release_health" -> GetReleaseHealthStep(s, l, data)
      [] name = "get_issue" -> GetIssueEnd(data)
      [] name = "get_release_issues" -> GetReleaseIssuesStep(s, l, data)

\* --------------------------------------------------------------- dispatcher
\* !args || typeof args !== 'object' || !('k' in args) for some k of keys
ArgsInvalidChecksObjectOnly(args, keys) == args.t # "object"
ArgsInvalid(args, keys) ==
    \/ args.t # "object"
    \/ \E k \in keys : ~HasKey(args, k)

\* args.k ? String(args.k) : otherwise
StringOr(args, k, otherwise) ==
    IF Truthy(Get(args, k)) THEN Str(String(Get(args, k))) ELSE otherwise

\* The branch chain inside the handler's try block.
Dispatch(name, args) ==
    CASE name = "list_recent_releases" ->
           IF ArgsInvalid(args, {"project_slug"})
           THEN Throw("Invalid arguments for list_recent_releases - requires project_slug")
           ELSE ListRecentReleasesStart(
                    [project_slug |-> String(Get(args, "project_slug")),
                     org_slug |-> StringOr(args, "org_slug", Undefined),
                     count |-> IF Truthy(Get(args, "count"))
                               THEN Number(Get(args, "count")) ELSE Undefined])
      [] name = "get_releases" ->
           IF ArgsInvalid(args, {"project_slug"})
           THEN Throw("Invalid arguments for get_releases - requires project_slug")
           ELSE GetReleasesStart(
                    [project_slug |-> String(Get(args, "project_slug")),
                     org_slug |-> StringOr(args, "org_slug", Undefined)])
      [] name = "get_issue" ->
           IF ArgsInvalid(args, {"issue_id", "org_slug", "project_slug"})
           THEN Throw("Invalid arguments for get_issue - requires issue_id, org_slug and project_slug")
           ELSE GetIssueStart(
                    [issue_id |-> String(Get(args, "issue_id")),
                     org_slug |-> String(Get(args, "org_slug")),
                     project_slug |-> String(Get(args, "project_slug"))])
      [] name = "get_release_issues" ->
           IF ArgsInvalid(args, {"project_slug"})
           THEN Throw("Invalid arguments for get_release_issues - requires project_slug")
           ELSE GetReleaseIssuesStart(
                    [project_slug |-> String(Get(args, "project_slug")),
                     org_slug |-> StringOr(args, "org_slug", Str(SENTRY_ORG_SLUG)),
                     release_version |-> Undefined])
      [] name = "inspect_sentry" -> InspectSentry
      [] name = "get_release_health" ->
           IF ArgsInvalid(args, {"project_slug"})
           THEN Throw("Invalid arguments for get_release_health - requires project_slug")
           ELSE GetReleaseHealthStart(
                    [project_slug |-> String(Get(args, "project_slug")),
                     org_slug |-> StringOr(args, "org_slug", Str(SENTRY_ORG_SLUG)),
                     release_version |-> StringOr(args, "release_version", Undefined)])
      [] OTHER -> Throw("Unknown tool")

\* !request.params.name || !tools[request.params.name]
ToolNotFound(name) == name = "" \/ name \notin ToolNames \cup PrototypeKeys

JSONStringify(v) == [json |-> v]

SuccessEnvelopeFlagged(v) ==
    [meta |-> <<>>, content |-> <<[type |-> "text", text |-> JSONStringify(v)]>>,
     isError |-> TRUE]
SuccessEnvelope(v) ==
    [meta |-> <<>>, content |-> <<[type |-> "text", text |-> JSONStringify(v)]>>]

ErrorEnvelope(message) ==
    [meta |-> <<>>,
     content |-> <<[type |-> "text",
                    text |-> JSONStringify([error |-> "Failed to execute tool",
                                            details |-> message])]>>,
     isError |-> TRUE]

\* The handler's catch block.
HandlerRethrows(message) == [k |-> "thrown", envelope |-> Str(message)]
HandlerCatch(message) == [k |-> "returned", envelope |-> ErrorEnvelope(message)]

\* --------------------------------------------------------- retry interceptor
NewConfig(rq) == [request |-> rq, retry |-> Retry, retryCount |-> 0]

\* Lines 70-75: the error is passed on when the budget is used up.
GivesUpOffByOne(cfg) == cfg.retry = 0 \/ cfg.retryCount > cfg.retry
GivesUpAfterOneRetry(cfg) == cfg.retry = 0 \/ cfg.retryCount >= 1
GivesUpNever(cfg) == cfg.retry = 0
GivesUp(cfg) == cfg.retry = 0 \/ cfg.retryCount >= cfg.retry

\* Line 77: config.__retryCount += 1, on the config of the failed request of
\* call c and on no other.
ConfigsAfterFailureSharedCounter(c) ==
    [d \in DOMAIN config |-> [config[d] EXCEPT !.retryCount = config[c].retryCount + 1]]
ConfigsAfterFailure(c) == [config EXCEPT ![c].retryCount = @ + 1]

\* ------------------------------------------------------------------- inputs
ArgumentValues(k) ==
    CASE k = "project_slug" -> {Str("web")}
      [] k = "org_slug" -> {Str(""), Str("other")}
      [] k = "issue_id" -> {Str("1001")}
      [] k = "release_version" -> {Str("a"), Str("b@2")}
      [] k = "count" -> {Num(n) : n \in -1..MaxCount} \cup {Str("2"), Str("many")}

ArgumentKeys(name) ==
    CASE name = "list_recent_releases" -> {"project_slug", "org_slug", "count"}
      [] name = "get_releases" -> {"project_slug", "org_slug"}
      [] name = "get_release_health" -> {"project_slug", "org_slug", "release_version"}
      [] name = "get_issue" -> {"issue_id", "org_slug", "project_slug"}
      [] name = "get_release_issues" -> {"project_slug", "org_slug", "release_version"}
      [] name = "inspect_sentry" -> {"project_slug", "count"}
      [] OTHER -> {}

AllArgumentValues ==
    UNION {ArgumentValues(k) :
             k \in {"project_slug", "org_slug", "issue_id", "release_version", "count"}}

\* The arguments a caller sends with a name: none, or an object holding some
\* of the keys the tool's schema describes.
ArgumentsFor(name) ==
    {Undefined} \cup
    {Object(f) : f \in UNION {{g \in [K -> AllArgumentValues] :
                                  \A k \in K : g[k] \in ArgumentValues(k)} :
                              K \in SUBSET ArgumentKeys(name)}}

RequestNames == ToolNames \cup PrototypeKeys \cup {"", "no_such_tool"}

Requests == UNION {{[name |-> n, arguments |-> a] : a \in ArgumentsFor(n)} : n \in RequestNames}

\* ----------------------------------------------------------------- actions
NoRequest == [name |-> "", arguments |-> Undefined]
NoConfig == [request |-> HttpGet("", Undefined), retry |-> 0, retryCount |-> 0]
Init ==
    /\ env \in Environments
    /\ process = IF ConfigComplete(env) THEN "serving" ELSE "exited"
    /\ exitCode = IF ConfigComplete(env) THEN Undefined ELSE Num(1)
    /\ lastError = IF ConfigComplete(env) THEN Null ELSE Undefined
    /\ rejections = <<>>
    /\ pc = [c \in Calls |-> "idle"]
    /\ request = [c \in Calls |-> NoRequest]
    /\ locals = [c \in Calls |-> <<>>]
    /\ stage = [c \in Calls |-> "none"]
    /\ config = [c \in Calls |-> NoConfig]
    /\ timer = [c \in Calls |-> 0]
    /\ outbound = [c \in Calls |-> <<>>]
    /\ raised = [c \in Calls |-> Undefined]
    /\ result = [c \in Calls |-> Undefined]
    /\ failedBefore = FALSE

\* The log entry of a logical request, made when the operation issues it;
\* data is the response's data once status is "ok", and empty until then;
\* error is the failure the request ended with once status is "failed".
NewEntry(o) ==
    [stage |-> o.stage, request |-> o.request, attempts |-> 1, failures |-> 0,
     status |-> "pending", data |-> <<>>, error |-> Undefined]

\* The operation of call c has run to `o`, `log` being its requests so far:
\* it is suspended at a request, has returned (lines 402-408) or has thrown
\* into the catch block (lines 409-421).
SettleSharedResult(c, o, log) ==
    CASE o.k = "await" ->
           /\ pc' = [pc EXCEPT ![c] = "http"]
           /\ stage' = [stage EXCEPT ![c] = o.stage]
           /\ locals' = [locals EXCEPT ![c] = o.locals]
           /\ config' = [config EXCEPT ![c] = NewConfig(o.request)]
           /\ outbound' = [outbound EXCEPT ![c] = Append(log, NewEntry(o))]
           /\ UNCHANGED <<raised, result>>
      [] o.k = "return" ->
           /\ pc' = [pc EXCEPT ![c] = "returned"]
           /\ result' = [d \in Calls |-> SuccessEnvelope(o.value)]
           /\ outbound' = [outbound EXCEPT ![c] = log]
           /\ UNCHANGED <<stage, locals, config, raised>>
      [] o.k = "throw" ->
           /\ pc' = [pc EXCEPT ![c] = HandlerCatch(o.message).k]
           /\ result' = [result EXCEPT ![c] = HandlerCatch(o.message).envelope]
           /\ raised' = [raised EXCEPT ![c] = Str(o.message)]
           /\ outbound' = [outbound EXCEPT ![c] = log]
           /\ UNCHANGED <<stage, locals, config>>
Settle(c, o, log) ==
    CASE o.k = "await" ->
           /\ pc' = [pc EXCEPT ![c] = "http"]
           /\ stage' = [stage EXCEPT ![c] = o.stage]
           /\ locals' = [locals EXCEPT ![c] = o.locals]
           /\ config' = [config EXCEPT ![c] = NewConfig(o.request)]
           /\ outbound' = [outbound EXCEPT ![c] = Append(log, NewEntry(o))]
           /\ UNCHANGED <<raised, result>>
      [] o.k = "return" ->
           /\ pc' = [pc EXCEPT ![c] = "returned"]
           /\ result' = [result EXCEPT ![c] = SuccessEnvelope(o.value)]
           /\ outbound' = [outbound EXCEPT ![c] = log]
           /\ UNCHANGED <<stage, locals, config, raised>>
      [] o.k = "throw" ->
           /\ pc' = [pc EXCEPT ![c] = HandlerCatch(o.message).k]
           /\ result' = [result EXCEPT ![c] = HandlerCatch(o.message).envelope]
           /\ raised' = [raised EXCEPT ![c] = Str(o.message)]
           /\ outbound' = [outbound EXCEPT ![c] = log]
           /\ UNCHANGED <<stage, locals, config>>

\* The call-tool handler from its entry to its first suspension point.
CallTool(c, rq) ==
    /\ process = "serving"
    /\ pc[c] = "idle"
    /\ request' = [request EXCEPT ![c] = rq]
    /\ IF ToolNotFound(rq.name)
       THEN /\ pc' = [pc EXCEPT ![c] = "thrown"]
            /\ result' = [result EXCEPT ![c] = Str("Tool not found")]
            /\ UNCHANGED <<stage, locals, config, outbound, raised>>
       ELSE Settle(c, Dispatch(rq.name, rq.arguments), <<>>)
    /\ UNCHANGED <<env, process, exitCode, lastError, rejections, timer, failedBefore>>

\* The pending attempt of call c fails with f; the interceptor passes the
\* error on to the operation, which throws, or schedules a retry.
AttemptFails(c, f) ==
    /\ pc[c] = "http"
    /\ LET n == Len(outbound[c])
           log == [outbound[c] EXCEPT ![n].failures = @ + 1]
       IN IF GivesUp(config[c])
          THEN /\ Settle(c, Throw(f.message),
                      [log EXCEPT ![n].status = "failed", ![n].error = Str(f.message)])
               /\ UNCHANGED <<timer>>
          ELSE /\ pc' = [pc EXCEPT ![c] = "backoff"]
               /\ outbound' = [outbound EXCEPT ![c] = log]
               /\ config' = ConfigsAfterFailure(c)
               /\ timer' = [timer EXCEPT ![c] = RetryDelay(config[c].retryCount + 1)]
               /\ UNCHANGED <<raised, result, stage, locals>>
    /\ UNCHANGED <<env, process, exitCode, lastError, rejections, request, failedBefore>>

\* The timer set by the interceptor fires: axiosInstance(config).
RetryFires(c) ==
    /\ pc[c] = "backoff"
    /\ pc' = [pc EXCEPT ![c] = "http"]
    /\ outbound' = [outbound EXCEPT ![c][Len(outbound[c])].attempts = @ + 1]
    /\ timer' = [timer EXCEPT ![c] = 0]
    /\ UNCHANGED <<env, process, exitCode, lastError, rejections, request, locals, stage, config, raised, result,
                   failedBefore>>

\* The pending attempt of call c gets a 2xx response carrying data; the
\* operation runs on to its next suspension point.
AttemptSucceeds(c, data) ==
    /\ pc[c] = "http"
    /\ data \in Payloads(stage[c])
    /\ LET n == Len(outbound[c])
       IN Settle(c, Resume(request[c].name, stage[c], locals[c], data),
                 [outbound[c] EXCEPT ![n].status = "ok", ![n].data = data])
    /\ UNCHANGED <<env, process, exitCode, lastError, rejections, request, timer, failedBefore>>

\* A list-tools request is handled, in one step.
ListTools(c) ==
    /\ process = "serving"
    /\ pc[c] = "idle"
    /\ pc' = [pc EXCEPT ![c] = "listed"]
    /\ result' = [result EXCEPT ![c] = ListToolsHandler]
    /\ UNCHANGED <<env, process, exitCode, lastError, rejections, request, locals, stage, config, timer, outbound,
                   raised, failedBefore>>

\* The outcome of call c has gone back to the host; the server goes on
\* serving.
Deliver(c) ==
    /\ pc[c] \in {"returned", "thrown", "listed"}
    /\ failedBefore' = (failedBefore \/ pc[c] = "thrown" \/ "isError" \in DOMAIN result[c])
    /\ pc' = [pc EXCEPT ![c] = "idle"]
    /\ request' = [request EXCEPT ![c] = NoRequest]
    /\ locals' = [locals EXCEPT ![c] = <<>>]
    /\ stage' = [stage EXCEPT ![c] = "none"]
    /\ config' = [config EXCEPT ![c] = NoConfig]
    /\ timer' = [timer EXCEPT ![c] = 0]
    /\ outbound' = [outbound EXCEPT ![c] = <<>>]
    /\ raised' = [raised EXCEPT ![c] = Undefined]
    /\ result' = [result EXCEPT ![c] = Undefined]
    /\ UNCHANGED <<env, process, exitCode, lastError, rejections>>

\* Calls handled one after the other.
OneAtATime == {1}

Next ==
    \E c \in OneAtATime :
        \/ ListTools(c)
        \/ \E rq \in Requests : CallTool(c, rq)
        \/ \E f \in Failures : AttemptFails(c, f)
        \/ RetryFires(c)
        \/ \E data \in Payloads(stage[c]) : AttemptSucceeds(c, data)
        \/ Deliver(c)

Spec == Init /\ [][Next]_vars

\* The pending HTTP attempt of call c completes: with a response, an error or
\* the timeout of the axios instance.
AttemptCompletes(c) ==
    \/ \E f \in Failures : AttemptFails(c, f)
    \/ \E data \in Payloads(stage[c]) : AttemptSucceeds(c, data)

\* Where each call is: every step of a call changes it.
position == <<pc, [c \in Calls |-> Len(outbound[c])]>>

\* Every attempt completes and every timer set by setTimeout fires.
SpecFair ==
    /\ Spec
    /\ \A c \in OneAtATime :
           WF_position(AttemptCompletes(c)) /\ WF_position(RetryFires(c))

\* Calls in flight together: calls that make one request, with all their
\* required arguments.
InterleavedRequests ==
    { [name |-> "get_issue",
       arguments |-> Object([issue_id |-> Str("1001"), org_slug |-> Str("other"),
                             project_slug |-> Str("web")])],
      [name |-> "get_releases", arguments |-> Object([project_slug |-> Str("web")])],
      [name |-> "get_release_health",
       arguments |-> Object([project_slug |-> Str("web"),
                             release_version |-> Str("b@2")])] }

NextInterleaved ==
    \E c \in Calls :
        \/ \E rq \in InterleavedRequests : CallTool(c, rq)
        \/ \E f \in Failures : AttemptFails(c, f)
        \/ RetryFires(c)
        \/ \E data \in Payloads(stage[c]) : AttemptSucceeds(c, data)
        \/ Deliver(c)

SpecInterleaved == Init /\ [][NextInterleaved]_vars

\* The reasons promises are rejected with: errors, or nothing at all.
Reasons ==
    {Undefined, [t |-> "error", message |-> "socket hang up"],
     [t |-> "error", message |-> "read ECONNRESET"]}

\* The 'unhandledRejection' listener: global.lastError = err.
OnUnhandledRejectionKeepsFirst(err) == IF lastError = Null THEN err ELSE lastError
OnUnhandledRejection(err) == err

\* A promise is rejected with err and nothing handles it; the listener runs.
UnhandledRejection(err) ==
    /\ process = "serving"
    /\ Len(rejections) < MaxRejections
    /\ rejections' = Append(rejections, err)
    /\ lastError' = OnUnhandledRejection(err)
    /\ UNCHANGED <<env, process, exitCode, pc, request, locals, stage, config, timer,
                   outbound, raised, result, failedBefore>>

\* Calls handled one after the other while promises are rejected unhandled.
NextDiagnostics ==
    \/ \E err \in Reasons : UnhandledRejection(err)
    \/ \E c \in OneAtATime :
           \/ \E rq \in InterleavedRequests : CallTool(c, rq)
           \/ \E f \in Failures : AttemptFails(c, f)
           \/ RetryFires(c)
           \/ \E data \in Payloads(stage[c]) : AttemptSucceeds(c, data)
           \/ Deliver(c)

SpecDiagnostics == Init /\ [][NextDiagnostics]_vars

\* ------------------------------------------------------------ observations
Finished(c) == pc[c] \in {"returned", "thrown"}
IsError(envelope) == "isError" \in DOMAIN envelope /\ envelope.isError
\* The JSON document in the envelope's content block.
Body(c) == result[c].content[1].text.json
Succeeded(c) == pc[c] = "returned" /\ ~IsError(result[c])
Failed(c) == pc[c] = "returned" /\ IsError(result[c])
Arguments(c) == request[c].arguments
\* The caller sent key k with a value.
Sent(c, k) == Arguments(c).t = "object" /\ HasKey(Arguments(c), k)
Entries(c) == {outbound[c][i] : i \in 1..Len(outbound[c])}
EntriesAt(c, s) == {e \in Entries(c) : e.stage = s}

\* required: [...] of each tool's inputSchema.
Required(name) ==
    CASE name = "inspect_sentry" -> <<>>
      [] name = "list_recent_releases" -> <<"project_slug">>
      [] name = "get_releases" -> <<"project_slug">>
      [] name = "get_release_health" -> <<"project_slug">>
      [] name = "get_issue" -> <<"issue_id", "org_slug", "project_slug">>
      [] name = "get_release_issues" -> <<"project_slug">>

\* ---------------------------------------------------------------------- C1
\* C1: a call-tool request whose name is empty or not a key of the tool
\* registry ends in a returned envelope with isError = true whose details
\* say that the tool was not found; nothing is thrown past the handler.
C1_UnknownToolReturnsErrorEnvelope ==
    \A c \in Calls :
        (Finished(c) /\ request[c].name \notin ToolNames) =>
            /\ pc[c] = "returned"
            /\ IsError(result[c])
            /\ Body(c).details \in {"Tool not found", "Unknown tool"}

\* ---------------------------------------------------------------------- C2
\* C2: when get_release_issues is called with an explicit release_version V,
\* the issue search carries the filter release:"V" for that V (the latest
\* release is used only when release_version is omitted).
C2_ExplicitVersionFiltersSearch ==
    \A c \in Calls :
        (/\ request[c].name = "get_release_issues"
         /\ Sent(c, "release_version")
         /\ Truthy(Get(Arguments(c), "release_version"))) =>
            \A e \in EntriesAt(c, "issues") :
                e.request.params.query =
                    "release:\"" \o String(Get(Arguments(c), "release_version")) \o "\""

\* ---------------------------------------------------------------------- C3
\* The attempt of call c that was pending has failed in this step.
FailureStep(c) ==
    /\ pc[c] = "http"
    /\ Len(outbound'[c]) = Len(outbound[c])
    /\ outbound'[c][Len(outbound[c])].failures = outbound[c][Len(outbound[c])].failures + 1

\* C3: a logical request is attempted at most 4 times, its first attempt
\* and at most 3 retries; a failed attempt is retried whenever fewer than 3
\* retries have been made, whatever the failure, and the failure of the
\* attempt after the third retry goes to the caller with no further attempt.
C3_AtMostThreeRetries ==
    /\ [](\A c \in Calls : \A e \in Entries(c) :
             /\ e.attempts \in 1..4
             /\ e.failures <= e.attempts
             /\ e.status = "failed" => (e.attempts = 4 /\ Failed(c)))
    /\ [][\A c \in Calls :
             FailureStep(c) =>
                 LET e == outbound[c][Len(outbound[c])]
                 IN IF e.attempts - 1 < 3
                    THEN /\ pc'[c] = "backoff"
                         /\ outbound'[c][Len(outbound[c])].status = "pending"
                    ELSE /\ Failed(c)'
                         /\ outbound'[c][Len(outbound[c])].status = "failed"
                         /\ outbound'[c][Len(outbound[c])].attempts = 4]_vars

C3_Witness ==
    \E c \in Calls : \E e \in Entries(c) :
        e.attempts = 4 /\ e.failures = 4 /\ e.status = "failed" /\ Failed(c)

\* ---------------------------------------------------------------------- C4
\* The operation can go on from the response e.data to the request e: where
\* the latest release is looked up, the list names one.
Usable(e) ==
    e.stage = "latest" => (Len(e.data) > 0 /\ e.data[1].version # "")

\* C4: a tool call whose request fails twice and succeeds at the third
\* attempt returns a successful result, two failures never being passed on;
\* a call whose request fails 4 times in a row returns an envelope with
\* isError = true whose details are the upstream failure's message.
C4_RetriedRequestOutcome ==
    \A c \in Calls :
        /\ \A e \in Entries(c) : e.failures = 2 => e.status # "failed"
        /\ (/\ pc[c] = "returned"
            /\ \E e \in Entries(c) : e.failures = 2 /\ e.attempts = 3
            /\ \A e \in Entries(c) : e.status = "ok" /\ Usable(e)) =>
               Succeeded(c)
        /\ \A e \in Entries(c) :
               e.failures = 4 =>
                   /\ Failed(c)
                   /\ Body(c).details \in {f.message : f \in Failures}
                   /\ Str(Body(c).details) = raised[c]

C4_Witness ==
    /\ \E e \in Entries(1) : e.failures = 2 /\ e.attempts = 3 /\ e.status = "ok"
    /\ Succeeded(1)

\* ---------------------------------------------------------------------- C5
\* C5: for a registered name every failure raised by the argument checks or
\* by the operation, an upstream failure after the last retry included, is
\* caught: the handler returns an envelope with one text block whose JSON is
\* {error: 'Failed to execute tool', details: the failure's message} and
\* isError = true, and the server goes on serving calls.
C5_FailuresBecomeErrorEnvelopes ==
    /\ \A c \in Calls :
           (Finished(c) /\ request[c].name \in ToolNames) =>
               /\ pc[c] = "returned"
               /\ raised[c] # Undefined =>
                      /\ Len(result[c].content) = 1
                      /\ result[c].content[1].type = "text"
                      /\ Body(c) = [error |-> "Failed to execute tool",
                                    details |-> raised[c].v]
                      /\ result[c].isError = TRUE
    /\ failedBefore => process = "serving"
    /\ (process = "serving" /\ \A c \in OneAtATime : pc[c] = "idle") =>
           \A rq \in Requests : ENABLED CallTool(1, rq)

C5_Witness ==
    /\ failedBefore
    /\ request[1].name = "get_release_health"
    /\ raised[1] = Str("No releases found")
    /\ Failed(1)

\* ---------------------------------------------------------------------- C6
\* "a", "a and b", "a, b and c"
Listing(names) ==
    CASE Len(names) = 1 -> names[1]
      [] Len(names) = 2 -> names[1] \o " and " \o names[2]
      [] Len(names) = 3 -> names[1] \o ", " \o names[2] \o " and " \o names[3]

\* C6: a call of an operation that has required fields, with one of them
\* missing or with no arguments object, returns an envelope with
\* isError = true whose details name the operation's required fields, and
\* makes no outbound request.
C6_MissingRequiredField ==
    \A c \in Calls :
        (/\ Finished(c)
         /\ request[c].name \in ToolNames
         /\ \E i \in 1..Len(Required(request[c].name)) :
                ~Sent(c, Required(request[c].name)[i])) =>
            /\ Failed(c)
            /\ Body(c).details = "Invalid arguments for " \o request[c].name
                                    \o " - requires " \o Listing(Required(request[c].name))
            /\ outbound[c] = <<>>

C6_Witness ==
    /\ request[1].name = "get_issue"
    /\ Sent(1, "issue_id") /\ Sent(1, "org_slug") /\ ~Sent(1, "project_slug")
    /\ Failed(1)
    /\ outbound[1] = <<>>

\* ---------------------------------------------------------------------- C7
\* The count the caller sent, as a number.
CountSent(c) == Number(Get(Arguments(c), "count"))

\* C7: list_recent_releases called with count = N returns at most N entries,
\* for every N a caller can pass as a number of entries (N >= 0).
C7_AtMostCountEntries ==
    \A c \in Calls :
        (/\ Succeeded(c)
         /\ request[c].name = "list_recent_releases"
         /\ Sent(c, "count")
         /\ CountSent(c).t = "number"
         /\ CountSent(c).v >= 0) =>
            Len(Body(c)) <= CountSent(c).v

\* ---------------------------------------------------------------------- C8
\* The release list the upstream sent to call c.
RawReleases(c) == outbound[c][1].data
DateOf(entry) == IF "date" \in DOMAIN entry THEN entry.date ELSE entry.dateCreated
Occurrences(s, version) == Cardinality({i \in 1..Len(s) : s[i].version = version})

\* C8: get_releases and list_recent_releases return releases newest first,
\* whatever the order of the upstream list, and get_releases returns every
\* release of that list: of two releases the one created later comes first.
C8_NewestFirst ==
    \A c \in Calls :
        (Succeeded(c) /\ request[c].name \in {"get_releases", "list_recent_releases"}) =>
            /\ \A i, j \in 1..Len(Body(c)) :
                   i < j => GetTime(DateOf(Body(c)[i])) >= GetTime(DateOf(Body(c)[j]))
            /\ request[c].name = "get_releases" =>
                   /\ Len(Body(c)) = Len(RawReleases(c))
                   /\ \A r \in Releases :
                          Occurrences(Body(c), r.version) =
                              Occurrences(RawReleases(c), r.version)
                   /\ \A i, j \in 1..Len(RawReleases(c)) :
                          GetTime(RawReleases(c)[j].dateCreated)
                              > GetTime(RawReleases(c)[i].dateCreated) =>
                          \E m, n \in 1..Len(Body(c)) :
                              /\ m < n
                              /\ Body(c)[m].version = RawReleases(c)[j].version
                              /\ Body(c)[n].version = RawReleases(c)[i].version

\* The upstream sends the older release first and get_releases returns it
\* last.
C8_Witness ==
    /\ Succeeded(1)
    /\ request[1].name = "get_releases"
    /\ Len(RawReleases(1)) = 2
    /\ RawReleases(1)[1].version = "a" /\ RawReleases(1)[2].version = "b@2"
    /\ Body(1)[1].version = "b@2" /\ Body(1)[2].version = "a"

\* ---------------------------------------------------------------------- C9
AsRelease(entry) ==
    [version |-> entry.version, dateCreated |-> entry.date, newGroups |-> entry.new_issues]

\* C9: list_recent_releases called with a count at least the number of
\* upstream releases returns the versions, dates and new-issue counts that
\* get_releases returns for the same release list, in the same order.
C9_SameAsGetReleases ==
    \A c \in Calls :
        (/\ Succeeded(c)
         /\ request[c].name = "list_recent_releases"
         /\ Sent(c, "count")
         /\ CountSent(c).t = "number"
         /\ CountSent(c).v >= Len(RawReleases(c))) =>
            [i \in 1..Len(Body(c)) |-> AsRelease(Body(c)[i])]
                = GetReleasesEnd(RawReleases(c)).value

C9_Witness ==
    /\ Succeeded(1)
    /\ request[1].name = "list_recent_releases"
    /\ Sent(1, "count")
    /\ CountSent(1) = Num(2)
    /\ Len(RawReleases(1)) = 2
    /\ RawReleases(1)[1].version = "a" /\ RawReleases(1)[2].version = "c-mobile"
    /\ Len(Body(1)) = 2

\* --------------------------------------------------------------------- C10
\* C10: get_release_issues called without a release_version takes the first
\* element of the release list as the upstream sent it for the latest
\* release, and the issue search is filtered by that element's version.
C10_LatestIsFirstOfRawList ==
    \A c \in Calls :
        (/\ request[c].name = "get_release_issues"
         /\ ~Sent(c, "release_version")) =>
            \A i \in 1..Len(outbound[c]) :
                outbound[c][i].stage = "issues" =>
                    /\ outbound[c][1].stage = "latest"
                    /\ outbound[c][i].request.params.query =
                           "release:\"" \o RawReleases(c)[1].version \o "\""

\* The first release of the list is not the newest one, and the search is
\* filtered by it.
C10_Witness ==
    /\ request[1].name = "get_release_issues"
    /\ ~Sent(1, "release_version")
    /\ Len(outbound[1]) = 3
    /\ Len(RawReleases(1)) = 2
    /\ RawReleases(1)[1].version = "a" /\ RawReleases(1)[2].version = "b@2"
    /\ outbound[1][3].request.params.query = "release:\"a\""

\* --------------------------------------------------------------------- C11
\* The request of call c that is pending or waiting for its retry.
Current(c) == outbound[c][Len(outbound[c])]
InFlight(c) == pc[c] \in {"http", "backoff"}
\* Call c makes one more attempt of its current request in this step.
RetryStep(c) ==
    /\ InFlight(c)
    /\ Len(outbound'[c]) = Len(outbound[c])
    /\ outbound'[c][Len(outbound[c])].attempts = Current(c).attempts + 1

\* C11: retry state belongs to one logical request: with several requests in
\* flight and failing in any order each request is retried up to 3 times, a
\* failure of one request leaves the retry count and the attempts of every
\* other request as they are, and a request is attempted again only after
\* its previous attempt has failed and its backoff timer has fired.
C11_RetryStatePerRequest ==
    /\ [](\A c \in Calls :
             InFlight(c) =>
                 /\ config[c].retryCount = Current(c).failures
                 /\ Current(c).attempts <= 4
                 /\ Current(c).attempts =
                        Current(c).failures + (IF pc[c] = "http" THEN 1 ELSE 0))
    /\ [][\A c \in Calls :
             FailureStep(c) =>
                 /\ \A d \in Calls \ {c} :
                        /\ config'[d] = config[d]
                        /\ outbound'[d] = outbound[d]
                        /\ pc'[d] = pc[d]
                        /\ timer'[d] = timer[d]
                 /\ IF Current(c).failures < 3
                    THEN pc'[c] = "backoff"
                    ELSE Failed(c)']_vars
    /\ [][\A c \in Calls :
             RetryStep(c) =>
                 /\ pc[c] = "backoff"
                 /\ Current(c).failures = Current(c).attempts
                 /\ \A d \in Calls \ {c} : config'[d] = config[d]]_vars

\* Two calls are in flight, one at its last retry and one at its first.
C11_Witness ==
    /\ InFlight(1) /\ InFlight(2)
    /\ config[1].retryCount = 3 /\ Current(1).attempts = 4
    /\ config[2].retryCount = 1 /\ Current(2).attempts = 1

\* --------------------------------------------------------------------- C12
\* C12: the timer set before the n-th retry of a request runs n x 1000 ms:
\* 1000 ms before the first retry, 2000 before the second, 3000 before the
\* third.
C12_LinearBackoff ==
    \A c \in Calls :
        pc[c] = "backoff" =>
            /\ Current(c).failures \in 1..3
            /\ timer[c] = Current(c).failures * 1000
            /\ Current(c).failures = 1 => timer[c] = 1000
            /\ Current(c).failures = 2 => timer[c] = 2000
            /\ Current(c).failures = 3 => timer[c] = 3000

C12_Witness ==
    pc[1] = "backoff" /\ Current(1).attempts = 3 /\ timer[1] = 3000

\* --------------------------------------------------------------------- C13
\* The names a list-tools response describes, in order.
Described(listing) == [i \in 1..Len(listing.tools) |-> listing.tools[i].name]
NoDuplicates(s) == \A i, j \in 1..Len(s) : s[i] = s[j] => i = j
Range(s) == {s[i] : i \in 1..Len(s)}

\* C13: the names list-tools describes are the keys of the tool registry,
\* six names each described once and each with one operation; the
\* capabilities the inspect operation returns are those names without
\* inspect_sentry.
C13_DescriptorMatchesRegistry ==
    \A c \in Calls :
        /\ pc[c] = "listed" =>
               /\ Len(Described(result[c])) = 6
               /\ NoDuplicates(Described(result[c]))
               /\ NoDuplicates(ToolKeys)
               /\ Range(Described(result[c])) = Range(ToolKeys)
        /\ (Succeeded(c) /\ request[c].name = "inspect_sentry") =>
               /\ NoDuplicates(Body(c).capabilities)
               /\ Range(Body(c).capabilities) =
                      Range(Described(ListToolsHandler)) \ {"inspect_sentry"}
               /\ Len(Body(c).capabilities) = 5

C13_Witness ==
    /\ pc[1] = "listed"
    /\ Len(result[1].tools) = 6
    /\ failedBefore

\* --------------------------------------------------------------------- C14
\* The operation of call c ran to its end without throwing.
OperationReturned(c) == pc[c] = "returned" /\ raised[c] = Undefined
\* What the operation of call c ran to, recomputed from its last response.
LastRun(c) ==
    IF outbound[c] = <<>>
    THEN Dispatch(request[c].name, request[c].arguments)
    ELSE Resume(request[c].name, stage[c], locals[c],
                outbound[c][Len(outbound[c])].data)

\* C14: when the operation returns, the handler's envelope has exactly one
\* content block, of type text, whose text is the JSON serialisation of the
\* operation's return value, and the envelope is not flagged as an error (the
\* success envelope carries no isError field, which the protocol reads as
\* false).
C14_SuccessEnvelope ==
    \A c \in Calls :
        OperationReturned(c) =>
            /\ LastRun(c).k = "return"
            /\ DOMAIN result[c].content = 1..1
            /\ result[c].content[1].type = "text"
            /\ result[c].content[1].text = JSONStringify(LastRun(c).value)
            /\ ~IsError(result[c])

C14_Witness ==
    /\ OperationReturned(1)
    /\ request[1].name = "get_release_issues"
    /\ Len(outbound[1]) = 3
    /\ Len(result[1].content) = 1

\* --------------------------------------------------------------------- C15
\* The caller of call c left the release out.
ReleaseOmitted(c) == ~Truthy(Get(Arguments(c), "release_version"))
\* The release list call c asked for came back empty.
EmptyReleaseList(c) ==
    /\ Len(outbound[c]) >= 1
    /\ outbound[c][1].stage = "latest"
    /\ outbound[c][1].status = "ok"
    /\ outbound[c][1].data = <<>>
StartsWith(s, prefix) ==
    Len(s) >= Len(prefix) /\ SubSeq(s, 1, Len(prefix)) = prefix

\* C15: when the release is omitted and the upstream release list is empty,
\* get_release_health and get_release_issues return an envelope with
\* isError = true whose details say that no releases were found, and the
\* release list is the only request the call has issued.
C15_EmptyReleaseListIsAnError ==
    \A c \in Calls :
        ( /\ request[c].name \in {"get_release_health", "get_release_issues"}
          /\ Arguments(c).t = "object"
          /\ ReleaseOmitted(c)
          /\ EmptyReleaseList(c) ) =>
            /\ Failed(c)
            /\ StartsWith(Body(c).details, "No releases found")
            /\ Len(outbound[c]) = 1
            /\ EntriesAt(c, "health") \cup EntriesAt(c, "project")
                   \cup EntriesAt(c, "issues") = {}

C15_Witness ==
    /\ request[1].name = "get_release_issues"
    /\ Arguments(1).t = "object"
    /\ ReleaseOmitted(1)
    /\ EmptyReleaseList(1)
    /\ Failed(1)
    /\ Body(1).details = "No releases found for project web"

\* --------------------------------------------------------------------- C16
\* One of the three required configuration values is absent.
ConfigurationValueAbsent ==
    \E k \in {"SENTRY_BASE_URL", "SENTRY_AUTH_TOKEN", "SENTRY_ORG_SLUG"} :
        env[k] = Undefined
\* No list-tools or call-tool request has been or is being served.
NothingServed ==
    /\ \A c \in Calls :
           /\ pc[c] = "idle"
           /\ request[c] = NoRequest
           /\ result[c] = Undefined
           /\ outbound[c] = <<>>
    /\ ~failedBefore

\* C16: if the API base URL, the authorization token or the default
\* organization is absent at startup, the process has exited with a
\* non-zero status without ever being connected to its transport, and no
\* list-tools or call-tool request is served in that run.
C16_MissingConfigurationExits ==
    ConfigurationValueAbsent =>
        /\ process = "exited"
        /\ exitCode.t = "number"
        /\ exitCode.v # 0
        /\ NothingServed

C16_Witness ==
    /\ env.SENTRY_ORG_SLUG = Undefined
    /\ env.SENTRY_AUTH_TOKEN # Undefined
    /\ env.SENTRY_BASE_URL # Undefined
    /\ process = "exited"
    /\ exitCode = Num(1)

ContainsMobile(v) ==
    \E i, j \in 1..Len(v) : SubSeq(v, i, j) = "mobile"

\* C18: every entry list_recent_releases returns has type 'mobile' if and
\* only if its version contains the substring 'mobile', and type 'desktop'
\* otherwise.
C18_TypeFromVersion ==
    \A c \in Calls :
        (Succeeded(c) /\ request[c].name = "list_recent_releases") =>
            \A i \in 1..Len(Body(c)) :
                /\ Body(c)[i].type \in {"mobile", "desktop"}
                /\ Body(c)[i].type = "mobile" <=> ContainsMobile(Body(c)[i].version)
                /\ Body(c)[i].type = "desktop" <=> ~ContainsMobile(Body(c)[i].version)

C18_Witness ==
    /\ Succeeded(1)
    /\ request[1].name = "list_recent_releases"
    /\ Len(Body(1)) = 2
    /\ Body(1)[1].version = "c-mobile" /\ Body(1)[1].type = "mobile"
    /\ Body(1)[2].version = "a" /\ Body(1)[2].type = "desktop"

\* --------------------------------------------------------------------- C19
\* The stages of the requests call c has issued, in order.
Stages(c) == [i \in 1..Len(outbound[c]) |-> outbound[c][i].stage]
IsPrefix(s, t) == Len(s) <= Len(t) /\ s = SubSeq(t, 1, Len(s))

\* C19: a get_release_issues call issues its requests in the order release
\* list (only when the release is omitted), project detail, issue search;
\* each is issued only after the one before it has succeeded; the issue
\* search carries the project id the project-detail request returned; and
\* when a request has failed after its retries the call has ended in an
\* error envelope with that request as its last.
C19_RequestOrder ==
    \A c \in Calls :
        (request[c].name = "get_release_issues" /\ Arguments(c).t = "object") =>
            /\ IsPrefix(Stages(c),
                        IF ReleaseOmitted(c)
                        THEN <<"latest", "project", "issues">>
                        ELSE <<"project", "issues">>)
            /\ \A i \in 1..Len(outbound[c]) - 1 : outbound[c][i].status = "ok"
            /\ \A i \in 1..Len(outbound[c]) :
                   /\ (outbound[c][i].stage = "issues" /\ i > 1) =>
                          /\ outbound[c][i - 1].stage = "project"
                          /\ outbound[c][i].request.params.project =
                                 outbound[c][i - 1].data.id
                   /\ outbound[c][i].status = "failed" =>
                          /\ i = Len(outbound[c])
                          /\ outbound[c][i].attempts = 4
                          /\ Failed(c)

\* --------------------------------------------------------------------- C20
RECURSIVE SumAttempts(_)
SumAttempts(log) ==
    IF log = <<>> THEN 0 ELSE Head(log).attempts + SumAttempts(Tail(log))

\* C20: provided every HTTP attempt eventually completes, every call-tool
\* invocation eventually ends; an invocation makes at most 3 logical requests
\* (get_release_issues is the one that makes 3), at most 4 attempts of each,
\* and so at most 12 attempts in all.
C20_EveryCallEnds ==
    /\ [](\A c \in Calls :
              /\ Len(outbound[c]) <= 3
              /\ Len(outbound[c]) = 3 => request[c].name = "get_release_issues"
              /\ \A i \in 1..Len(outbound[c]) : outbound[c][i].attempts <= 4
              /\ SumAttempts(outbound[c]) <= 12)
    /\ \A c \in Calls : InFlight(c) ~> Finished(c)

\* A get_release_issues call that has ended after 12 attempts.
C20_Witness ==
    /\ request[1].name = "get_release_issues"
    /\ Finished(1)
    /\ Len(outbound[1]) = 3
    /\ SumAttempts(outbound[1]) = 12

\* --------------------------------------------------------------------- C21
\* What a call with request rq ends in when the upstream answers its requests
\* as log records, replayed from entry i on with the operation at o.
RECURSIVE Replay(_, _, _, _)
Replay(rq, o, log, i) ==
    CASE o.k = "return" -> [k |-> "returned", envelope |-> SuccessEnvelope(o.value)]
      [] o.k = "throw" -> HandlerCatch(o.message)
      [] o.k = "await" ->
           IF i > Len(log) \/ log[i].request # o.request
           THEN [k |-> "none", envelope |-> Undefined]
           ELSE IF log[i].status = "ok"
           THEN Replay(rq, Resume(rq.name, o.stage, o.locals, log[i].data), log, i + 1)
           ELSE IF log[i].status = "failed"
           THEN Replay(rq, Throw(log[i].error.v), log, i + 1)
           ELSE [k |-> "none", envelope |-> Undefined]

\* The outcome of a call alone, from its request and its own responses.
Outcome(rq, log) ==
    IF ToolNotFound(rq.name)
    THEN [k |-> "thrown", envelope |-> Str("Tool not found")]
    ELSE Replay(rq, Dispatch(rq.name, rq.arguments), log, 1)

\* Everything the program keeps for call c.
Slots(c) ==
    <<pc[c], request[c], locals[c], stage[c], config[c], timer[c], outbound[c],
      raised[c], result[c]>>

\* C21: the envelope a call ends in is the one its own name, arguments and
\* upstream responses determine, whatever the other call in flight does; and
\* a step of one call leaves everything kept for the other call as it was.
C21_IndependentOfInterleaving ==
    /\ [](\A c \in Calls :
              Finished(c) =>
                  /\ Outcome(request[c], outbound[c]).k = pc[c]
                  /\ Outcome(request[c], outbound[c]).envelope = result[c])
    /\ [][\A c, d \in Calls :
              (c # d /\ Slots(c)' # Slots(c)) => Slots(d)' = Slots(d)]_vars

\* Call 1 has returned its own result while call 2, for another tool, is
\* between two attempts of its request.
C21_Witness ==
    /\ Succeeded(1)
    /\ request[1].name = "get_releases"
    /\ Len(Body(1)) = 2
    /\ pc[2] = "backoff"
    /\ request[2].name = "get_issue"
    /\ Outcome(request[1], outbound[1]).envelope = result[1]

\* --------------------------------------------------------------------- C22
\* C22: global.lastError is null once the server has started and after that
\* is the reason of the most recent unhandled rejection; a rejection leaves
\* the process serving and every call as it was, the envelope of a finished
\* call is the one its own request and responses determine, and while the
\* server is serving every unhandled rejection reaches the listener.
C22_LastErrorIsMostRecent ==
    /\ [](process = "serving" =>
              /\ lastError = IF rejections = <<>> THEN Null
                             ELSE rejections[Len(rejections)]
              /\ \A c \in Calls :
                     Finished(c) => Outcome(request[c], outbound[c]).envelope = result[c]
              /\ Len(rejections) < MaxRejections =>
                     \A err \in Reasons : ENABLED UnhandledRejection(err))
    /\ [][rejections' # rejections =>
              /\ process' = "serving"
              /\ exitCode' = Undefined
              /\ \A c \in Calls : Slots(c)' = Slots(c)]_vars

\* A second rejection has replaced the first in the slot while a call was in
\* flight.
C22_Witness ==
    /\ Len(rejections) = 2
    /\ rejections[1] # rejections[2]
    /\ lastError = rejections[2]
    /\ lastError # Undefined
    /\ process = "serving"
    /\ pc[1] = "backoff"

\* --------------------------------------------------------------------- C23
\* The name of call c has passed the registry lookup: its handler is inside
\* the try block or has left it.
PassedLookup(c) == pc[c] \in {"http", "backoff", "returned"}
\* The requests the operation of a tool makes.
OwnStages(name) ==
    CASE name = "list_recent_releases" -> {"releases"}
      [] name = "get_releases" -> {"releases"}
      [] name = "get_release_health" -> {"latest", "health"}
      [] name = "get_issue" -> {"issue"}
      [] name = "get_release_issues" -> {"latest", "project", "issues"}
      [] OTHER -> {}

\* C23: every name that passes the registry lookup is a registered tool whose
\* branch validates its arguments and runs that tool's own operation: the
\* call never fails with 'Unknown tool', makes only its own tool's requests,
\* and ends in what its own operation gives.
C23_BranchesCoverRegistry ==
    \A c \in Calls :
        PassedLookup(c) =>
            /\ raised[c] # Str("Unknown tool")
            /\ request[c].name \in ToolNames
            /\ \A e \in Entries(c) : e.stage \in OwnStages(request[c].name)
            /\ (\E i \in 1..Len(Required(request[c].name)) :
                    ~Sent(c, Required(request[c].name)[i])) =>
                   raised[c] = Str("Invalid arguments for " \o request[c].name
                                      \o " - requires "
                                      \o Listing(Required(request[c].name)))

\* --------------------------------------------------------------------- C24
\* The caller of call c left count out, sent zero, or sent something that is
\* no number (Number(count) is NaN).
CountOmitted(c) == ~Sent(c, "count")
CountZero(c) == Sent(c, "count") /\ Get(Arguments(c), "count") = Num(0)
CountNotNumeric(c) == Sent(c, "count") /\ CountSent(c) = NaN

====
